---- MODULE Spec2Model ----
(***************************************************************************)
(* The particle animation engine of log-animation: the LogCanvas component *)
(* of src/src/components/LogTaillog.tsx (lane + barrier + feed-glow        *)
(* variant), the log window kept by src/src/pages/Index.tsx, and the       *)
(* LogWebSocketClient of src/src/utils/websocketClient.ts.                 *)
(*                                                                         *)
(* Units.  Time is counted in ticks of 100 ms, so a deltaTime of dt ticks  *)
(* is dt/10 seconds.  Lengths are pixels.  glowIntensity is kept in        *)
(* hundredths.  With these units every per-frame increment of the source   *)
(* is an integer:                                                          *)
(*   x                += speed * speedRef * deltaTime * 100 = speed*s*dt*10 *)
(*   size             += deltaTime * 30                     = 3 * dt        *)
(*   glowIntensity    -= deltaTime * 1.5                    = 15 * dt /100  *)
(*   statusDisplayTime-= deltaTime                          = dt ticks      *)
(*   statusCurrentY   -= 30 * deltaTime                     = 3 * dt        *)
(* Ratios (trail opacity, FeedGlow progress and opacity) are kept as exact *)
(* fractions [n, d]; the fraction 0/0 stands for NaN.                      *)
(***************************************************************************)
EXTENDS Integers, Sequences, FiniteSets, TLC

VARIABLES
    logs,             \* logsRef.current: the log window handed to the canvas
    processedLogIds,  \* processedLogIds.current
    particles,        \* particlesRef.current
    feedGlows,        \* feedGlows.current
    blockedCount,     \* blockedCount.current
    passedCount,      \* passedCount.current
    speedRef,         \* speedRef.current
    width, height,    \* canvas.width, canvas.height
    now,              \* the clock read by Date.now() and by the frame timestamp
    created,          \* history: log id -> number of createParticle calls
    armedAt,          \* history: log id -> the clock values at the start of the
                      \* steps in which a callout of that id was armed
    glowsMade,        \* history: log id -> number of FeedGlows pushed
    mousePosRef,          \* mousePosRef.current, client coordinates
    hoveredParticleRef,   \* hoveredParticleRef.current: <<>> for null, else
                          \* <<r>> with r the referenced particle
    stickyHoverInfoRef,   \* stickyHoverInfoRef.current: <<>> for null, else
                          \* <<[particle |-> r, position |-> anchor]>>
    clickCalls,           \* history: the onParticleClick calls made so far
    mounted,              \* the effect of LogCanvas has run and its cleanup has not
    animationFrameRef,    \* animationFrameRef.current: the last handle returned
                          \* by requestAnimationFrame
    pendingFrames,        \* the handles whose callback the browser still holds
    config,               \* LogWebSocketClient.config
    ws,                   \* LogWebSocketClient.ws: "null", or the readyState of
                          \* the socket it refers to
    isConnecting,         \* LogWebSocketClient.isConnecting
    reconnectAttempts,    \* LogWebSocketClient.reconnectAttempts
    reconnectTimer,       \* LogWebSocketClient.reconnectTimer: 0 for null, else
                          \* the handle returned by setTimeout
    timers,               \* the reconnect timeouts the browser still holds
    timerSeq,             \* the number of setTimeout calls made so far
    orphans,              \* sockets the client no longer refers to whose close
                          \* event is still to come
    delays,               \* history: the delays scheduled since reconnectAttempts
                          \* was last reset
    replaced,             \* the orphans that connect() replaced while they were
                          \* open: they stay open, with their handlers
    sinceOpen,            \* history: the reconnects scheduled since the last
                          \* onopen
    flags,                \* the useAzionEndpoint and enableWebSocket props of
                          \* useLogReceiver
    effectSource,         \* the branch of the effect of useLogReceiver whose
                          \* cleanup function React holds: "azion", "websocket"
                          \* or "mock"
    listeners,            \* for each source, the registrations of onNewLog
    azionClients,         \* the AzionLogClients constructed in the tab: each
                          \* one has wrapped window.fetch and listens on window
    posts,                \* the POSTs to /logs the page has made
    onNewLogCalls         \* history: the calls of onNewLog, with their source

\* the pointer state, which only handleMouseMove, handleClick and the sticky
\* check of animate touch
hoverVars == <<mousePosRef, hoveredParticleRef, clickCalls>>

\* the frame loop of the mounted component
loopVars == <<mounted, animationFrameRef, pendingFrames>>

\* the state of the LogWebSocketClient
clientVars == <<config, ws, isConnecting, reconnectAttempts, reconnectTimer,
                timers, timerSeq, orphans, replaced, delays, sinceOpen>>

\* the state of useLogReceiver and of the AzionLogClients
receiverVars == <<flags, effectSource, listeners, azionClients, posts, onNewLogCalls>>

\* the state of LogCanvas and of the log window
canvasVars == <<logs, processedLogIds, particles, feedGlows, blockedCount,
                passedCount, speedRef, width, height, now, created, armedAt,
                glowsMade, mousePosRef, hoveredParticleRef, stickyHoverInfoRef,
                clickCalls, mounted, animationFrameRef, pendingFrames>>

vars == <<logs, processedLogIds, particles, feedGlows, blockedCount, passedCount,
          speedRef, width, height, now, created, armedAt, glowsMade,
          mousePosRef, hoveredParticleRef, stickyHoverInfoRef, clickCalls,
          mounted, animationFrameRef, pendingFrames, config, ws, isConnecting,
          reconnectAttempts, reconnectTimer, timers, timerSeq, orphans, replaced,
          delays, sinceOpen, flags, effectSource, listeners, azionClients, posts,
          onNewLogCalls>>

----------------------------------------------------------------------------
(* Bounds of the model *)

\* the frame loop is explored up to this clock value (ticks)
MaxTime == 20
\* the single-particle stepping runs are explored up to this clock value
MaxStepTime == 24
\* length of the log window (Index.tsx keeps the last 1000 entries)
LogWindow == 2
\* length of the generated URL strings of the lane runs
MaxUrlLen == 2
\* the client runs are explored up to this number of reconnect timeouts
MaxTimers == 4
\* and up to this number of sockets closed but not yet reported closed
MaxOrphans == 1
\* AzionLogClients constructed in a run
MaxClients == 3
\* POSTs to /logs made in a run
MaxPosts == 2
\* calls of onNewLog after which no further log is delivered
MaxCalls == 4

----------------------------------------------------------------------------
(* Program constants *)

LaneCount == 8
LanePadding == 8
StartX == -20
TargetMargin == 20
CullMargin == 50
TrailCap == 10
StatusDuration == 10       \* 1.0 s
StatusRise == 3            \* 30 px/s
StatusGap == 8
ExplodeGrow == 3           \* 30 px/s
ExplodeFade == 15          \* 1.5 /s, in hundredths per tick
ExplodeSizeCap == 50
GlowTargetY == 30
GlowSpeed == 150           \* 1500 px/s
GlowSize == 4
ErrorFloor == 400
PxPerTick == 10            \* deltaTime * 100, per tick
HoverMargin == 5
TooltipWidth == 300
TooltipHeight == 100
TooltipMargin == 20
TooltipDx == 10
TooltipDy == 60
StickyLeft == 10
StickyTop == 60
\* the defaults of WebSocketConfig (milliseconds, attempts)
DefaultReconnectInterval == 3000
DefaultMaxReconnectAttempts == 10

NeutralColor == "#888888"

\* request paths, as sequences of char codes
UrlHelp == <<47, 104, 101, 108, 112>>                          \* "/help"
UrlLogin == <<47, 108, 111, 103, 105, 110>>                    \* "/login"
UrlUsers == <<47, 97, 112, 105, 47, 117, 115, 101, 114, 115>>  \* "/api/users"
UrlIl2cart == <<47, 105, 108, 50, 99, 97, 114, 116>>           \* "/il2cart"
UrlProducts == <<47, 97, 112, 105, 47, 112, 114, 111, 100, 117, 99, 116, 115>>
UrlOrders == <<47, 97, 112, 105, 47, 111, 114, 100, 101, 114, 115>>
UrlDashboard == <<47, 100, 97, 115, 104, 98, 111, 97, 114, 100>>
UrlAnalytics == <<47, 97, 112, 105, 47, 97, 110, 97, 108, 121, 116, 105, 99, 115>>
UrlStaticCss == <<47, 115, 116, 97, 116, 105, 99, 47, 99, 115, 115>>
UrlReports == <<47, 97, 112, 105, 47, 114, 101, 112, 111, 114, 116, 115>>

\* the reference labels of the lanes, in drawing order
sampleUrls ==
    << UrlUsers, UrlProducts, UrlOrders, UrlDashboard,
       UrlLogin, UrlAnalytics, UrlStaticCss, UrlReports >>

QueryPage == <<63, 112, 61, 50>>                               \* "?p=2"

DefaultConfig ==
    [ reconnectInterval |-> DefaultReconnectInterval,
      maxReconnectAttempts |-> DefaultMaxReconnectAttempts ]

\* the log entries of the model: a passing and a rejected request for the
\* frame loop, and two more for the single-particle runs
LogPool ==
    { [id |-> "a", statusCode |-> 200, url |-> UrlUsers],
      [id |-> "b", statusCode |-> 404, url |-> UrlHelp] }

StepLogs ==
    LogPool \cup
    { [id |-> "c", statusCode |-> 302, url |-> UrlHelp],
      [id |-> "d", statusCode |-> 500, url |-> UrlLogin] }

LogIds == { l.id : l \in StepLogs }

\* outcomes of the Math.random() calls of one createParticle: the offset of
\* y inside the lane band, size (4..7), base speed (3..5) and glowIntensity
\* (0.5..1, in hundredths)
RandomDraws ==
    { [ry |-> 12, size |-> 6, speed |-> 4, glow |-> 80],
      [ry |-> 30, size |-> 6, speed |-> 4, glow |-> 80] }

StepDraws ==
    RandomDraws \cup { [ry |-> 3, size |-> 4, speed |-> 3, glow |-> 50] }

\* frame deltaTimes (ticks): 1 s and 2 s
DeltaTimes == {10, 20}

\* deltaTimes of the single-particle runs
StepDeltas == {1, 4, 12}

SpeedValues == {1, 2}

CanvasSizes == { <<800, 400>>, <<400, 240>> }

----------------------------------------------------------------------------
(* Fractions.  [n, d] with d > 0 is n/d; 0/0 is NaN; 1/0 and -1/0 are the  *)
(* infinities.  Quotient follows IEEE division of two finite numbers.      *)

NaN == [n |-> 0, d |-> 0]
One == [n |-> 1, d |-> 1]
Zero == [n |-> 0, d |-> 1]

Quotient(a, b) ==
    IF b > 0 THEN [n |-> a, d |-> b]
    ELSE IF b < 0 THEN [n |-> -a, d |-> -b]
    ELSE IF a = 0 THEN NaN
    ELSE IF a > 0 THEN [n |-> 1, d |-> 0]
    ELSE [n |-> -1, d |-> 0]

\* f >= 1, false for NaN
AtLeastOne(f) == (f.d > 0 /\ f.n >= f.d) \/ (f.d = 0 /\ f.n > 0)

\* f < a/b and f > a/b for b > 0, both false for NaN
Below(f, a, b) == (f.d > 0 /\ f.n * b < a * f.d) \/ (f.d = 0 /\ f.n < 0)
Above(f, a, b) == (f.d > 0 /\ f.n * b > a * f.d) \/ (f.d = 0 /\ f.n > 0)

\* Math.min(f, 1)
MinOne(f) ==
    IF f = NaN THEN NaN
    ELSE IF AtLeastOne(f) THEN One
    ELSE f

\* 0 <= f <= 1
InUnitInterval(f) == f.d > 0 /\ 0 <= f.n /\ f.n <= f.d

----------------------------------------------------------------------------
(* Lane Assignment: getUrlLane.  The 32-bit hash is kept as two 16-bit     *)
(* halves so that no intermediate value leaves the 32-bit range.           *)

Half == 65536

\* url.split('?')[0]
RECURSIVE BaseUrl(_)
BaseUrl(url) ==
    IF url = <<>> \/ Head(url) = 63 THEN <<>>
    ELSE <<Head(url)>> \o BaseUrl(Tail(url))

\* ((hash << 5) - hash + charCode) & 0xffffffff, as an unsigned pair
HashStep(h, c) ==
    LET t == 31 * h.lo + c
    IN  [lo |-> t % Half, hi |-> (31 * h.hi + (t \div Half)) % Half]

RECURSIVE UrlHash(_, _)
UrlHash(h, s) ==
    IF s = <<>> THEN h ELSE UrlHash(HashStep(h, Head(s)), Tail(s))

\* Math.abs of the signed 32-bit value, as an unsigned pair
Abs32(h) ==
    IF h.hi < Half \div 2 THEN h
    ELSE [lo |-> (Half - h.lo) % Half,
          hi |-> (Half - 1 - h.hi + (IF h.lo = 0 THEN 1 ELSE 0)) % Half]

\* mutant: the query string takes part in the hash
getUrlLane_WholeUrl(url) ==
    Abs32(UrlHash([lo |-> 0, hi |-> 0], url)).lo % LaneCount

\* mutant: urlHash % 8 without Math.abs (the remainder keeps the sign)
getUrlLane_NoAbs(url) ==
    LET h == UrlHash([lo |-> 0, hi |-> 0], BaseUrl(url))
    IN  IF h.hi < Half \div 2 THEN h.lo % LaneCount
        ELSE 0 - (Abs32(h).lo % LaneCount)

getUrlLane(url) ==
    Abs32(UrlHash([lo |-> 0, hi |-> 0], BaseUrl(url))).lo % LaneCount

----------------------------------------------------------------------------
(* getStatusColor *)

\* the text drawn at lane i: sampleUrls[i] || `/lane-${i}`
LaneLabel(i) ==
    IF i + 1 \in DOMAIN sampleUrls THEN sampleUrls[i + 1]
    ELSE <<47, 108, 97, 110, 101, 45, 48 + i>>

getStatusColor(statusCode) ==
    IF statusCode >= 200 /\ statusCode < 300 THEN "hsl(var(--success))"
    ELSE IF statusCode >= 300 /\ statusCode < 400 THEN "hsl(var(--redirect))"
    ELSE IF statusCode >= 400 /\ statusCode < 500 THEN "hsl(var(--error))"
    ELSE IF statusCode >= 500 THEN "hsl(var(--server-error))"
    ELSE "hsl(var(--foreground))"

----------------------------------------------------------------------------
(* Particle Factory: createParticle.  The canvas heights of the model are  *)
(* multiples of 8, so laneHeight is an integer; the random y is minY plus  *)
(* an integer offset inside the band [minY, maxY).                         *)

BarrierX(w) == w \div 2

\* Math.random() * range for the integer draw r: an offset of the sign of
\* range and smaller than it in magnitude (range is negative when the band
\* is narrower than twice the padding)
RandomOffset(r, range) ==
    IF range > 0 THEN r % range
    ELSE IF range = 0 THEN 0
    ELSE -(r % (-range))

\* mutant: every particle is aimed past the right edge
TargetXOf_AlwaysPastEdge(statusCode, w) == w + TargetMargin

\* targetX of a new particle: past the right edge, or the barrier
TargetXOf(statusCode, w) ==
    IF statusCode < ErrorFloor THEN w + TargetMargin ELSE BarrierX(w)

createParticle(log, draw, w, h, s) ==
    LET laneIndex == getUrlLane(log.url)
        laneHeight == h \div LaneCount
        laneTop == laneIndex * laneHeight
        laneBottom == (laneIndex + 1) * laneHeight
        minY == laneTop + LanePadding
        maxY == laneBottom - LanePadding
        randomY == minY + RandomOffset(draw.ry, maxY - minY)
        targetX == TargetXOf(log.statusCode, w)
    IN  [ id |-> log.id,
          x |-> StartX,
          y |-> randomY,
          targetX |-> targetX,
          targetY |-> randomY,
          color |-> NeutralColor,
          size |-> draw.size,
          speed |-> draw.speed * s,
          log |-> log,
          trail |-> <<>>,
          isAlive |-> TRUE,
          glowIntensity |-> draw.glow,
          phase |-> "moving",
          laneIndex |-> laneIndex,
          showingStatus |-> FALSE,
          statusDisplayTime |-> 0,
          statusStickX |-> 0,
          statusStartY |-> 0,
          statusCurrentY |-> 0,
          hasShownStatus |-> FALSE ]

----------------------------------------------------------------------------
(* Particle Simulator: updateParticle, one operator per block of the body  *)

\* mutant: a particle whose explosion is over is recycled as a moving one
ExplodeStep_Recycle(p, dt) ==
    LET size2 == p.size + ExplodeGrow * dt
        glow2 == p.glowIntensity - ExplodeFade * dt
        over == size2 > ExplodeSizeCap \/ glow2 <= 0
    IN  [p EXCEPT !.size = size2,
                  !.glowIntensity = glow2,
                  !.isAlive = IF over THEN FALSE ELSE @,
                  !.phase = IF over THEN "moving" ELSE @]

\* mutant: an exploding particle keeps drifting and leaving a trail
ExplodeStep_Drifts(p, dt) ==
    LET size2 == p.size + ExplodeGrow * dt
        glow2 == p.glowIntensity - ExplodeFade * dt
    IN  [p EXCEPT !.size = size2,
                  !.glowIntensity = glow2,
                  !.x = @ + dt,
                  !.trail = Append(@, [x |-> p.x, y |-> p.y, opacity |-> One]),
                  !.isAlive = IF size2 > ExplodeSizeCap \/ glow2 <= 0 THEN FALSE ELSE @]

\* the exploding branch
ExplodeStep(p, dt) ==
    LET size2 == p.size + ExplodeGrow * dt
        glow2 == p.glowIntensity - ExplodeFade * dt
    IN  [p EXCEPT !.size = size2,
                  !.glowIntensity = glow2,
                  !.isAlive = IF size2 > ExplodeSizeCap \/ glow2 <= 0 THEN FALSE ELSE @]

\* mutant: a particle marked blocked stops at the barrier
MoveStep_HaltBlocked(p, dt, s) ==
    IF p.phase = "blocked" THEN p
    ELSE [p EXCEPT !.x = @ + p.speed * s * dt * PxPerTick]

\* mutant: only the multiplier baked into particle.speed at creation counts
MoveStep_CreationSpeed(p, dt, s) ==
    [p EXCEPT !.x = @ + p.speed * dt * PxPerTick]

\* particle.x += particle.speed * speedRef.current * deltaTime * 100
MoveStep(p, dt, s) ==
    [p EXCEPT !.x = @ + p.speed * s * dt * PxPerTick]

hasReachedBarrier(p, barrierX) ==
    p.x >= barrierX /\ p.phase = "moving"

\* mutant: the callout is armed in the zone ahead of the barrier
ArmStatus_Zone(p, barrierX) ==
    IF p.x >= barrierX - 60 /\ p.phase = "moving" /\ ~p.hasShownStatus
    THEN [p |-> [p EXCEPT !.color = getStatusColor(p.log.statusCode),
                          !.showingStatus = TRUE,
                          !.statusDisplayTime = StatusDuration,
                          !.statusStickX = barrierX,
                          !.statusStartY = p.y - p.size - StatusGap,
                          !.statusCurrentY = p.y - p.size - StatusGap,
                          !.hasShownStatus = TRUE],
          armed |-> 1]
    ELSE [p |-> p, armed |-> 0]

\* the status callout is armed; armed is 1 when the branch is taken
ArmStatus(p, barrierX) ==
    IF hasReachedBarrier(p, barrierX) /\ ~p.hasShownStatus
    THEN [p |-> [p EXCEPT !.color = getStatusColor(p.log.statusCode),
                          !.showingStatus = TRUE,
                          !.statusDisplayTime = StatusDuration,
                          !.statusStickX = barrierX,
                          !.statusStartY = p.y - p.size - StatusGap,
                          !.statusCurrentY = p.y - p.size - StatusGap,
                          !.hasShownStatus = TRUE],
          armed |-> 1]
    ELSE [p |-> p, armed |-> 0]

\* mutant: the callout is disarmed only once the timer is below zero
DecayStatus_StrictZero(p, dt) ==
    IF p.showingStatus
    THEN LET t == p.statusDisplayTime - dt
         IN  [p EXCEPT !.statusDisplayTime = t,
                       !.statusCurrentY = @ - StatusRise * dt,
                       !.showingStatus = ~(t < 0)]
    ELSE p

\* the status timer and the rise of the callout
DecayStatus(p, dt) ==
    IF p.showingStatus
    THEN LET t == p.statusDisplayTime - dt
         IN  [p EXCEPT !.statusDisplayTime = t,
                       !.statusCurrentY = @ - StatusRise * dt,
                       !.showingStatus = ~(t <= 0)]
    ELSE p

\* mutant: past the cap the newest point is dropped instead of the oldest
PushTrail_DropNewest(p) ==
    LET pushed == Append(p.trail, [x |-> p.x, y |-> p.y, opacity |-> One])
        kept == IF Len(pushed) > TrailCap THEN SubSeq(pushed, 1, TrailCap) ELSE pushed
    IN  [p EXCEPT !.trail =
            [i \in 1..Len(kept) |->
                [kept[i] EXCEPT !.opacity = [n |-> i * 8, d |-> Len(kept) * 10]]]]

\* trail.push, trail.shift past the cap, and the opacity ramp
PushTrail(p) ==
    LET pushed == Append(p.trail, [x |-> p.x, y |-> p.y, opacity |-> One])
        kept == IF Len(pushed) > TrailCap THEN Tail(pushed) ELSE pushed
    IN  [p EXCEPT !.trail =
            [i \in 1..Len(kept) |->
                [kept[i] EXCEPT !.opacity = [n |-> i * 8, d |-> Len(kept) * 10]]]]

\* the FeedGlow literal.  The id `feed-${Date.now()}-${Math.random()}` is
\* kept as the pair of the clock and the id of the rejected particle; y, the
\* eased draw position, is a function of progress, startY and targetY that
\* only drawFeedGlow reads, and is not kept.
NewFeedGlow(p, barrierX, t) ==
    [ id |-> <<t, p.id>>,
      x |-> barrierX,
      startY |-> p.y,
      targetY |-> GlowTargetY,
      opacity |-> Zero,
      size |-> GlowSize,
      color |-> getStatusColor(p.log.statusCode),
      speed |-> GlowSpeed,
      isAlive |-> TRUE,
      progress |-> Zero,
      startTime |-> t ]

\* mutant: the rejected particle is not snapped to the barrier
BarrierCheck_NoSnap(p, barrierX, t) ==
    IF p.x >= barrierX /\ p.phase = "moving"
    THEN IF p.log.statusCode >= ErrorFloor
         THEN [p |-> [p EXCEPT !.phase = "exploding"],
               glows |-> <<NewFeedGlow(p, barrierX, t)>>,
               returned |-> TRUE]
         ELSE [p |-> [p EXCEPT !.phase = "blocked"],
               glows |-> <<>>,
               returned |-> FALSE]
    ELSE [p |-> p, glows |-> <<>>, returned |-> FALSE]

\* the barrier check; returned is TRUE when the body returns from it
BarrierCheck(p, barrierX, t) ==
    IF p.x >= barrierX /\ p.phase = "moving"
    THEN IF p.log.statusCode >= ErrorFloor
         THEN [p |-> [p EXCEPT !.phase = "exploding", !.x = barrierX],
               glows |-> <<NewFeedGlow(p, barrierX, t)>>,
               returned |-> TRUE]
         ELSE [p |-> [p EXCEPT !.phase = "blocked"],
               glows |-> <<>>,
               returned |-> FALSE]
    ELSE [p |-> p, glows |-> <<>>, returned |-> FALSE]

\* mutant: the cull counts particles still marked moving, not blocked ones
OffScreen_CountsMoving(p, w) ==
    IF p.x > w + CullMargin
    THEN [p |-> [p EXCEPT !.isAlive = FALSE],
          passed |-> IF p.phase = "moving" THEN 1 ELSE 0]
    ELSE [p |-> p, passed |-> 0]

\* mutant: a particle beyond the right edge re-enters from the left
OffScreen_Wraps(p, w) ==
    IF p.x > w + CullMargin
    THEN [p |-> [p EXCEPT !.x = StartX],
          passed |-> IF p.phase = "blocked" THEN 1 ELSE 0]
    ELSE [p |-> p, passed |-> 0]

\* the off-screen cull
OffScreen(p, w) ==
    IF p.x > w + CullMargin
    THEN [p |-> [p EXCEPT !.isAlive = FALSE],
          passed |-> IF p.phase = "blocked" THEN 1 ELSE 0]
    ELSE [p |-> p, passed |-> 0]

\* mutant: the off-screen cull runs before the barrier check
updateParticle_CullFirst(p, dt, w, s, t) ==
    IF p.phase = "exploding"
    THEN [p |-> ExplodeStep(p, dt), glows |-> <<>>, passed |-> 0, armed |-> 0]
    ELSE LET barrierX == BarrierX(w)
             moved == MoveStep(p, dt, s)
             arm == ArmStatus(moved, barrierX)
             trailed == PushTrail(DecayStatus(arm.p, dt))
             off == OffScreen(trailed, w)
             hit == BarrierCheck(off.p, barrierX, t)
         IN  [p |-> hit.p, glows |-> hit.glows, passed |-> off.passed,
              armed |-> arm.armed]

\* updateParticle(particle, deltaTime) with canvas width w, speedRef s and
\* Date.now() = t: the updated particle, the FeedGlows it pushes, its
\* increment of passedCount, and whether it armed its callout
updateParticle(p, dt, w, s, t) ==
    IF p.phase = "exploding"
    THEN [p |-> ExplodeStep(p, dt), glows |-> <<>>, passed |-> 0, armed |-> 0]
    ELSE LET barrierX == BarrierX(w)
             moved == MoveStep(p, dt, s)
             arm == ArmStatus(moved, barrierX)
             trailed == PushTrail(DecayStatus(arm.p, dt))
             hit == BarrierCheck(trailed, barrierX, t)
             off == OffScreen(hit.p, w)
         IN  IF hit.returned
             THEN [p |-> hit.p, glows |-> hit.glows, passed |-> 0, armed |-> arm.armed]
             ELSE [p |-> off.p, glows |-> hit.glows, passed |-> off.passed,
                   armed |-> arm.armed]

----------------------------------------------------------------------------
(* Effect Manager: updateFeedGlow at Date.now() = t.  elapsed/duration with *)
(* duration = totalDistance / speed is (elapsed * speed) / totalDistance.   *)

GlowProgress(g, t) ==
    LET elapsed == t - g.startTime
        totalDistance == g.startY - g.targetY
    IN  MinOne(Quotient(elapsed * g.speed, totalDistance))

GlowOpacity(progress) ==
    IF Below(progress, 1, 10) THEN [n |-> 10 * progress.n, d |-> progress.d]
    ELSE IF Above(progress, 9, 10)
         THEN [n |-> 10 * (progress.d - progress.n), d |-> progress.d]
    ELSE One

\* the updated glow and its increment of blockedCount
updateFeedGlow(g, t) ==
    LET progress == GlowProgress(g, t)
        done == AtLeastOne(progress)
    IN  [g |-> [g EXCEPT !.progress = progress,
                         !.opacity = GlowOpacity(progress),
                         !.isAlive = IF done THEN FALSE ELSE @],
         blocked |-> IF done THEN 1 ELSE 0]

----------------------------------------------------------------------------
(* Helpers over sequences *)

RECURSIVE Flatten(_)
Flatten(ss) == IF ss = <<>> THEN <<>> ELSE Head(ss) \o Flatten(Tail(ss))

RECURSIVE SumSeq(_)
SumSeq(ns) == IF ns = <<>> THEN 0 ELSE Head(ns) + SumSeq(Tail(ns))

\* the number of entries of a sequence of records whose id field is id
CountId(rs, id) == Cardinality({ i \in 1..Len(rs) : rs[i].id = id })

----------------------------------------------------------------------------
(* The frame loop of LogCanvas and the log window of Index *)

\* drawFeedGlow(ctx, glow) raises a TypeError when createRadialGradient is
\* handed a non-finite coordinate: glow.y = startY - totalDistance * eased is
\* NaN exactly when progress is
drawFeedGlowThrows(g) == g.progress = NaN

\* the draw section of animate raises: the glows are drawn after the cull.
\* (drawParticle is handed finite coordinates and a positive radius.)
DrawThrows(glows) == \E i \in DOMAIN glows : drawFeedGlowThrows(glows[i])

\* mutant: the cleanup leaves the requested frame with the browser
cancelAnimationFrame_Ignored(pending, handle) == pending

\* cancelAnimationFrame(handle) on the callbacks the browser holds
cancelAnimationFrame(pending, handle) == pending \ {handle}

\* the effect of LogCanvas has run: animate is requested for the first time
Mounted ==
    /\ mounted = TRUE
    /\ animationFrameRef = 1
    /\ pendingFrames = {1}

\* mutant: the WebSocket client is preferred to the Azion client
SourceFor_WebSocketFirst(f) ==
    IF f.enableWebSocket THEN "websocket"
    ELSE IF f.useAzionEndpoint THEN "azion"
    ELSE "mock"

\* the branch the effect of useLogReceiver takes for the props f
SourceFor(f) ==
    IF f.useAzionEndpoint THEN "azion"
    ELSE IF f.enableWebSocket THEN "websocket"
    ELSE "mock"

Sources == {"azion", "websocket", "mock"}

\* the defaults of the props of useLogReceiver
DefaultFlags == [useAzionEndpoint |-> TRUE, enableWebSocket |-> TRUE]

\* onLog(onNewLog), or addEventListener, of the branch src
Subscribe(ls, src) == [ls EXCEPT ![src] = @ + 1]

\* the unsubscribe function, or removeEventListener, of the branch src
Unsubscribe(ls, src) == [ls EXCEPT ![src] = IF @ > 0 THEN @ - 1 ELSE 0]

\* useLogReceiver after its effect has run for the props f
ReceiverAfterMount(f) ==
    /\ flags = f
    /\ effectSource = SourceFor(f)
    /\ listeners = Subscribe([src \in Sources |-> 0], SourceFor(f))
    /\ azionClients = IF SourceFor(f) = "azion" THEN 1 ELSE 0
    /\ posts = 0
    /\ onNewLogCalls = <<>>

\* Index: useLogReceiver({ onNewLog }), every other prop at its default
ReceiverMounted == ReceiverAfterMount(DefaultFlags)

\* the constructor of LogWebSocketClient with configuration c
ClientIdle(c) ==
    /\ config = c
    /\ ws = "null"
    /\ isConnecting = FALSE
    /\ reconnectAttempts = 0
    /\ reconnectTimer = 0
    /\ timers = {}
    /\ timerSeq = 0
    /\ orphans = 0
    /\ replaced = 0
    /\ delays = <<>>
    /\ sinceOpen = 0

Init ==
    /\ logs = <<>>
    /\ processedLogIds = {}
    /\ particles = <<>>
    /\ feedGlows = <<>>
    /\ blockedCount = 0
    /\ passedCount = 0
    /\ speedRef = 1
    /\ width = 800
    /\ height = 400
    /\ now = 0
    /\ created = [id \in LogIds |-> 0]
    /\ armedAt = [id \in LogIds |-> <<>>]
    /\ glowsMade = [id \in LogIds |-> 0]
    /\ mousePosRef = <<0, 0>>
    /\ hoveredParticleRef = <<>>
    /\ stickyHoverInfoRef = <<>>
    /\ clickCalls = {}
    /\ Mounted
    /\ ClientIdle(DefaultConfig)
    /\ ReceiverMounted

\* Index: setLogs(prev => [...prev, newLog].slice(-1000)), then the effect
\* logsRef.current = logs.  The same entry may be delivered again.
AppendLog(log) ==
    /\ mounted
    /\ logs' = LET updated == Append(logs, log)
               IN  IF Len(updated) > LogWindow THEN Tail(updated) ELSE updated
    /\ UNCHANGED <<processedLogIds, particles, feedGlows, blockedCount, passedCount,
                   speedRef, width, height, now, created, armedAt, glowsMade>>
    /\ UNCHANGED <<hoverVars, stickyHoverInfoRef, loopVars, clientVars, receiverVars>>

\* Index.handleClear: setLogs([])
ClearLogs ==
    /\ mounted
    /\ logs # <<>>
    /\ logs' = <<>>
    /\ UNCHANGED <<processedLogIds, particles, feedGlows, blockedCount, passedCount,
                   speedRef, width, height, now, created, armedAt, glowsMade>>
    /\ UNCHANGED <<hoverVars, stickyHoverInfoRef, loopVars, clientVars, receiverVars>>

\* the effect speedRef.current = speed
SetSpeed(s) ==
    /\ mounted
    /\ s # speedRef
    /\ speedRef' = s
    /\ UNCHANGED <<logs, processedLogIds, particles, feedGlows, blockedCount,
                   passedCount, width, height, now, created, armedAt, glowsMade>>
    /\ UNCHANGED <<hoverVars, stickyHoverInfoRef, loopVars, clientVars, receiverVars>>

\* resizeCanvas on a window resize event
ResizeCanvas(size) ==
    /\ mounted
    /\ size # <<width, height>>
    /\ width' = size[1]
    /\ height' = size[2]
    /\ UNCHANGED <<logs, processedLogIds, particles, feedGlows, blockedCount,
                   passedCount, speedRef, now, created, armedAt, glowsMade>>
    /\ UNCHANGED <<hoverVars, stickyHoverInfoRef, loopVars, clientVars, receiverVars>>

\* the spawn, update and cull sections of animate(currentTime) with
\* deltaTime = dt; draws[i] are the random numbers of the i-th createParticle
\* of the frame.  The result holds the values the frame leaves behind.
AnimateParticles(dt, draws) ==
    LET trulyNewLogs == SelectSeq(logs, LAMBDA log : log.id \notin processedLogIds)
        spawned == [i \in 1..Len(trulyNewLogs) |->
                       createParticle(trulyNewLogs[i], draws[i], width, height, speedRef)]
    IN  [ ids |-> { trulyNewLogs[i].id : i \in 1..Len(trulyNewLogs) },
          spawned |-> spawned,
          upd |-> [i \in 1..Len(particles) + Len(spawned) |->
                     updateParticle((particles \o spawned)[i], dt, width, speedRef,
                                    now + dt)] ]

AnimateGlows(pushed, t) ==
    [i \in 1..Len(feedGlows) + Len(pushed) |-> updateFeedGlow((feedGlows \o pushed)[i], t)]

\* animate(currentTime), called by the browser for a requested frame h.  The
\* draw section follows the cull and assigns nothing; when it raises, the
\* call requestAnimationFrame(animate) that ends animate is not reached.
Frame(dt, draws) ==
    /\ pendingFrames # {}
    /\ now + dt <= MaxTime
    /\ Len(draws) = Len(SelectSeq(logs, LAMBDA log : log.id \notin processedLogIds))
    /\ \E r \in { AnimateParticles(dt, draws) } :
       \E g \in { AnimateGlows(Flatten([i \in DOMAIN r.upd |-> r.upd[i].glows]), now + dt) } :
         /\ now' = now + dt
         /\ processedLogIds' = processedLogIds \cup r.ids
         /\ particles' = SelectSeq([i \in DOMAIN r.upd |-> r.upd[i].p], LAMBDA q : q.isAlive)
         /\ \E alive \in { SelectSeq([i \in DOMAIN g |-> g[i].g], LAMBDA q : q.isAlive) } :
              /\ feedGlows' = alive
              /\ \E h \in pendingFrames :
                   IF DrawThrows(alive)
                   THEN /\ pendingFrames' = pendingFrames \ {h}
                        /\ animationFrameRef' = animationFrameRef
                   ELSE /\ pendingFrames' = (pendingFrames \ {h}) \cup {animationFrameRef + 1}
                        /\ animationFrameRef' = animationFrameRef + 1
         /\ passedCount' = passedCount + SumSeq([i \in DOMAIN r.upd |-> r.upd[i].passed])
         /\ blockedCount' = blockedCount + SumSeq([i \in DOMAIN g |-> g[i].blocked])
         /\ created' = [id \in LogIds |-> created[id] + CountId(r.spawned, id)]
         /\ armedAt' = [id \in LogIds |-> armedAt[id] \o
                [k \in 1..SumSeq([i \in DOMAIN r.upd |->
                           IF r.upd[i].p.id = id THEN r.upd[i].armed ELSE 0]) |-> now]]
         /\ glowsMade' = [id \in LogIds |-> glowsMade[id] +
                SumSeq([i \in DOMAIN r.upd |->
                           IF r.upd[i].p.id = id THEN Len(r.upd[i].glows) ELSE 0])]
         /\ stickyHoverInfoRef' =
                IF /\ stickyHoverInfoRef # <<>>
                   /\ ~\E i \in DOMAIN r.upd :
                          r.upd[i].p.id = stickyHoverInfoRef[1].particle.id
                THEN <<>>
                ELSE stickyHoverInfoRef
    /\ UNCHANGED <<logs, speedRef, width, height, hoverVars, mounted, clientVars, receiverVars>>

\* the cleanup of the effect: cancelAnimationFrame(animationFrameRef.current)
\* and removal of the resize listener
Unmount ==
    /\ mounted
    /\ mounted' = FALSE
    /\ pendingFrames' = cancelAnimationFrame(pendingFrames, animationFrameRef)
    /\ UNCHANGED <<logs, processedLogIds, particles, feedGlows, blockedCount,
                   passedCount, speedRef, width, height, now, created, armedAt,
                   glowsMade, animationFrameRef>>
    /\ UNCHANGED <<hoverVars, stickyHoverInfoRef, clientVars, receiverVars>>

Next ==
    \/ \E log \in LogPool : AppendLog(log)
    \/ ClearLogs
    \/ \E s \in SpeedValues : SetSpeed(s)
    \/ \E size \in CanvasSizes : ResizeCanvas(size)
    \/ \E dt \in DeltaTimes : \E k \in 0..LogWindow :
           \E draws \in [1..k -> RandomDraws] : Frame(dt, draws)

Spec == Init /\ [][Next]_vars

\* The clock of the animation loop moves: a step that changes `now' is a
\* Frame step, and Frame is enabled exactly when some deltaTime still fits.
FrameRuns ==
    /\ now' \in { now + dt : dt \in DeltaTimes }
    /\ now' <= MaxTime

\* requestAnimationFrame(animate) is re-armed at the end of every frame, so
\* while the component is mounted another frame always follows.
FairSpec == Spec /\ WF_now(FrameRuns)

----------------------------------------------------------------------------
(* Single-particle runs: one particle is created and then stepped with     *)
(* updateParticle, and the FeedGlows it pushes with updateFeedGlow, as a   *)
(* unit test of the simulator does; nothing is culled, so the functions    *)
(* are also applied to entities already marked not-alive.  The canvas size *)
(* and the speed multiplier of a run are drawn at its start.               *)

StepInit ==
    \E log \in StepLogs, draw \in StepDraws, size \in CanvasSizes, s \in SpeedValues :
        /\ logs = <<log>>
        /\ processedLogIds = {log.id}
        /\ particles = <<createParticle(log, draw, size[1], size[2], s)>>
        /\ feedGlows = <<>>
        /\ blockedCount = 0
        /\ passedCount = 0
        /\ speedRef = s
        /\ width = size[1]
        /\ height = size[2]
        /\ now = 0
        /\ created = [id \in LogIds |-> IF id = log.id THEN 1 ELSE 0]
        /\ armedAt = [id \in LogIds |-> <<>>]
        /\ glowsMade = [id \in LogIds |-> 0]
        /\ mousePosRef = <<0, 0>>
        /\ hoveredParticleRef = <<>>
        /\ stickyHoverInfoRef = <<>>
        /\ clickCalls = {}
        /\ Mounted
        /\ ClientIdle(DefaultConfig)
        /\ ReceiverMounted

\* one step of the simulator with deltaTime = dt: updateParticle on every
\* particle, then updateFeedGlow on every glow
Step(dt) ==
    /\ now + dt <= MaxStepTime
    /\ \E upd \in { [i \in DOMAIN particles |->
                       updateParticle(particles[i], dt, width, speedRef, now + dt)] } :
       \E g \in { AnimateGlows(Flatten([i \in DOMAIN upd |-> upd[i].glows]), now + dt) } :
         /\ now' = now + dt
         /\ particles' = [i \in DOMAIN upd |-> upd[i].p]
         /\ feedGlows' = [i \in DOMAIN g |-> g[i].g]
         /\ passedCount' = passedCount + SumSeq([i \in DOMAIN upd |-> upd[i].passed])
         /\ blockedCount' = blockedCount + SumSeq([i \in DOMAIN g |-> g[i].blocked])
         /\ armedAt' = [id \in LogIds |-> armedAt[id] \o
                [k \in 1..SumSeq([i \in DOMAIN upd |->
                           IF upd[i].p.id = id THEN upd[i].armed ELSE 0]) |-> now]]
         /\ glowsMade' = [id \in LogIds |-> glowsMade[id] +
                SumSeq([i \in DOMAIN upd |->
                           IF upd[i].p.id = id THEN Len(upd[i].glows) ELSE 0])]
    /\ UNCHANGED <<logs, processedLogIds, speedRef, width, height, created>>
    /\ UNCHANGED <<hoverVars, stickyHoverInfoRef, loopVars, clientVars, receiverVars>>

StepNext ==
    \E dt \in StepDeltas : Step(dt)

StepSpec == StepInit /\ [][StepNext]_vars

\* The clock of a single-particle run moves: a step that changes `now' is a
\* Step, and Step is enabled exactly when some deltaTime still fits.
StepRuns ==
    /\ now' \in { now + dt : dt \in StepDeltas }
    /\ now' <= MaxStepTime

\* frames keep coming
StepFair == StepSpec /\ WF_now(StepRuns)

----------------------------------------------------------------------------
(* Pointer: handleMouseMove, getOptimalTooltipPosition and handleClick.    *)
(* A reference to a particle object is kept as the fields read through it, *)
(* id and log, which never change after createParticle.                    *)

\* canvas.getBoundingClientRect(): left and top of the canvas in the client
\* area
CanvasLeft == 16
CanvasTop == 96

Ref(p) == [id |-> p.id, log |-> p.log]

\* Math.sqrt(dx ** 2 + dy ** 2) <= particle.size + 5, both sides squared
UnderPointer(p, x, y) ==
    (p.x - x) * (p.x - x) + (p.y - y) * (p.y - y)
        <= (p.size + HoverMargin) * (p.size + HoverMargin)

\* mutant: the last particle under the pointer instead of the first
FindHovered_Last(ps, x, y) ==
    LET hits == { i \in DOMAIN ps : UnderPointer(ps[i], x, y) }
    IN  IF hits = {} THEN <<>>
        ELSE <<ps[CHOOSE i \in hits : \A j \in hits : i >= j]>>

\* particlesRef.current.find(...): <<>> for undefined
FindHovered(ps, x, y) ==
    LET hits == { i \in DOMAIN ps : UnderPointer(ps[i], x, y) }
    IN  IF hits = {} THEN <<>>
        ELSE <<ps[CHOOSE i \in hits : \A j \in hits : i <= j]>>

\* the candidate positions in priority order, for the viewport
\* vp = <<window.innerWidth, window.innerHeight>>
TooltipPositions(particle, mouseX, vp) ==
    LET w == TooltipWidth
        h == TooltipHeight
        m == TooltipMargin
        left == IF m >= StartX - w - m THEN m ELSE StartX - w - m
        right == IF vp[1] - w - m <= particle.targetX + m
                 THEN vp[1] - w - m ELSE particle.targetX + m
    IN  << [x |-> mouseX + TooltipDx, y |-> particle.y - h - m],
           [x |-> mouseX + TooltipDx, y |-> particle.y + m],
           [x |-> left, y |-> particle.y - h \div 2],
           [x |-> right, y |-> particle.y - h \div 2],
           [x |-> m, y |-> m],
           [x |-> vp[1] - w - m, y |-> m],
           [x |-> m, y |-> vp[2] - h - m],
           [x |-> vp[1] - w - m, y |-> vp[2] - h - m] >>

\* the filter of the positions: a tooltip box at pos lies in the viewport,
\* the margin kept on every side
FitsViewport(pos, vp) ==
    /\ pos.x >= TooltipMargin
    /\ pos.x + TooltipWidth <= vp[1] - TooltipMargin
    /\ pos.y >= TooltipMargin
    /\ pos.y + TooltipHeight <= vp[2] - TooltipMargin

\* the first position that fits, else the offset from the pointer
getOptimalTooltipPosition(particle, mouseX, mouseY, vp) ==
    LET validPositions ==
            SelectSeq(TooltipPositions(particle, mouseX, vp),
                      LAMBDA pos : FitsViewport(pos, vp))
    IN  IF validPositions = <<>>
        THEN [x |-> mouseX + TooltipDx, y |-> mouseY - TooltipDy]
        ELSE validPositions[1]

\* the style of the sticky tooltip: left and top of the box on the screen
StickyTooltipAt(position) ==
    [x |-> position.x + StickyLeft, y |-> position.y - StickyTop]

\* mutant: every hover writes the sticky info anew
StickyAfterMove_Always(hovered, pos, vp) ==
    IF hovered # <<>>
    THEN << [particle |-> Ref(hovered[1]),
             position |-> getOptimalTooltipPosition(hovered[1], pos[1], pos[2], vp)] >>
    ELSE stickyHoverInfoRef

\* the sticky update of handleMouseMove
StickyAfterMove(hovered, pos, vp) ==
    IF /\ hovered # <<>>
       /\ \/ stickyHoverInfoRef = <<>>
          \/ stickyHoverInfoRef[1].particle.id # hovered[1].id
    THEN << [particle |-> Ref(hovered[1]),
             position |-> getOptimalTooltipPosition(hovered[1], pos[1], pos[2], vp)] >>
    ELSE stickyHoverInfoRef

\* handleMouseMove for a pointer at client position pos
handleMouseMove(pos, vp) ==
    /\ mounted
    /\ mousePosRef' = pos
    /\ \E hovered \in { FindHovered(particles, pos[1] - CanvasLeft, pos[2] - CanvasTop) } :
         /\ hoveredParticleRef' = IF hovered = <<>> THEN <<>> ELSE <<Ref(hovered[1])>>
         /\ stickyHoverInfoRef' = StickyAfterMove(hovered, pos, vp)
    /\ UNCHANGED <<logs, processedLogIds, particles, feedGlows, blockedCount,
                   passedCount, speedRef, width, height, now, created, armedAt,
                   glowsMade, clickCalls, loopVars, clientVars, receiverVars>>

\* handleClick, with the onParticleClick prop given.  Each call is recorded
\* with whether, at the click, a particle of the live collection carrying the
\* log was under the pointer.
handleClick ==
    /\ mounted
    /\ hoveredParticleRef # <<>>
    /\ clickCalls' = clickCalls \cup
         { [ log |-> hoveredParticleRef[1].log,
             underPointer |->
                 \E i \in DOMAIN particles :
                     /\ particles[i].log = hoveredParticleRef[1].log
                     /\ UnderPointer(particles[i], mousePosRef[1] - CanvasLeft,
                                     mousePosRef[2] - CanvasTop) ] }
    /\ UNCHANGED <<logs, processedLogIds, particles, feedGlows, blockedCount,
                   passedCount, speedRef, width, height, now, created, armedAt,
                   glowsMade, mousePosRef, hoveredParticleRef, stickyHoverInfoRef,
                   loopVars, clientVars, receiverVars>>

\* pointer positions, in canvas coordinates: between the two particles of
\* lane 0 after a first frame, on one of them, on a rejected particle held at
\* the barrier of the small canvas, and over empty space
CanvasSpots == { <<380, 29>>, <<380, 12>>, <<200, 15>>, <<600, 200>> }

PointerSpots == { <<c[1] + CanvasLeft, c[2] + CanvasTop>> : c \in CanvasSpots }

\* <<window.innerWidth, window.innerHeight>>
Viewports == { <<1000, 700>>, <<360, 200>> }

\* Pointer runs: a passing and a rejected request for "/help" are in the log
\* window at mount; frames, pointer moves and clicks interleave.
HoverInit ==
    \E size \in CanvasSizes :
        /\ logs = << [id |-> "c", statusCode |-> 302, url |-> UrlHelp],
                     [id |-> "b", statusCode |-> 404, url |-> UrlHelp] >>
        /\ processedLogIds = {}
        /\ particles = <<>>
        /\ feedGlows = <<>>
        /\ blockedCount = 0
        /\ passedCount = 0
        /\ speedRef = 1
        /\ width = size[1]
        /\ height = size[2]
        /\ now = 0
        /\ created = [id \in LogIds |-> 0]
        /\ armedAt = [id \in LogIds |-> <<>>]
        /\ glowsMade = [id \in LogIds |-> 0]
        /\ mousePosRef = <<0, 0>>
        /\ hoveredParticleRef = <<>>
        /\ stickyHoverInfoRef = <<>>
        /\ clickCalls = {}
        /\ Mounted
        /\ ClientIdle(DefaultConfig)
        /\ ReceiverMounted

\* deltaTimes of the frames of the pointer runs
HoverDeltas == {5, 10}

HoverNext ==
    \/ \E dt \in HoverDeltas : \E k \in 0..LogWindow :
           \E draws \in [1..k -> RandomDraws] : Frame(dt, draws)
    \/ \E pos \in PointerSpots, vp \in Viewports : handleMouseMove(pos, vp)
    \/ handleClick

HoverSpec == HoverInit /\ [][HoverNext]_vars

----------------------------------------------------------------------------
(* Lane runs: two log entries with URLs drawn from LaneUrls are in the log *)
(* window at mount, and the first frame creates their particles.           *)

\* '/', 'a' and '?'
UrlAlphabet == {47, 97, 63}

\* every string over UrlAlphabet up to MaxUrlLen, the sample paths, a path
\* whose hash is -2^31 ("/il2cart"), and paths with a query string
LaneUrls ==
    UNION { [1..k -> UrlAlphabet] : k \in 0..MaxUrlLen }
        \cup { UrlUsers, UrlHelp, UrlLogin, UrlIl2cart }
        \cup { UrlUsers \o QueryPage, UrlIl2cart \o QueryPage }
        \cup { sampleUrls[k] : k \in DOMAIN sampleUrls }

LaneInit ==
    \E u \in LaneUrls, v \in LaneUrls :
        /\ logs = << [id |-> "a", statusCode |-> 200, url |-> u],
                     [id |-> "b", statusCode |-> 404, url |-> v] >>
        /\ processedLogIds = {}
        /\ particles = <<>>
        /\ feedGlows = <<>>
        /\ blockedCount = 0
        /\ passedCount = 0
        /\ speedRef = 1
        /\ width = 800
        /\ height = 400
        /\ now = 0
        /\ created = [id \in LogIds |-> 0]
        /\ armedAt = [id \in LogIds |-> <<>>]
        /\ glowsMade = [id \in LogIds |-> 0]
        /\ mousePosRef = <<0, 0>>
        /\ hoveredParticleRef = <<>>
        /\ stickyHoverInfoRef = <<>>
        /\ clickCalls = {}
        /\ Mounted
        /\ ClientIdle(DefaultConfig)
        /\ ReceiverMounted

LaneNext ==
    \E dt \in DeltaTimes : \E draws \in [1..2 -> RandomDraws] :
        now = 0 /\ Frame(dt, draws)

LaneSpec == LaneInit /\ [][LaneNext]_vars

----------------------------------------------------------------------------
(* Speed runs: single-particle runs in which the speed control is moved    *)
(* between the steps.                                                      *)

SpeedDeltas == {4, 12}

SpeedNext ==
    \/ \E dt \in SpeedDeltas : Step(dt)
    \/ \E s \in SpeedValues : SetSpeed(s)

SpeedSpec == StepInit /\ [][SpeedNext]_vars

----------------------------------------------------------------------------
(* Lifecycle runs: logs arrive, frames run and the component is unmounted. *)
(* The random y offsets include the one that puts a particle of lane 0 at  *)
(* y = 30, the targetY of the FeedGlows.                                   *)

LoopDraws ==
    RandomDraws \cup { [ry |-> 22, size |-> 6, speed |-> 4, glow |-> 80] }

LoopNext ==
    \/ \E log \in LogPool : AppendLog(log)
    \/ \E dt \in DeltaTimes : \E k \in 0..LogWindow :
           \E draws \in [1..k -> LoopDraws] : Frame(dt, draws)
    \/ Unmount

LoopSpec == Init /\ [][LoopNext]_vars

----------------------------------------------------------------------------
(* Spawn runs: two log entries are in the log window at mount and the      *)
(* first frame creates their particles, on canvases that include a narrow  *)
(* one and one whose element has no layout size yet (offsetWidth and       *)
(* offsetHeight are 0).                                                    *)

SpawnSizes == CanvasSizes \cup { <<304, 64>>, <<0, 0>> }

SpawnInit ==
    \E l1 \in StepLogs, l2 \in StepLogs, size \in SpawnSizes :
        /\ l1.id # l2.id
        /\ logs = <<l1, l2>>
        /\ processedLogIds = {}
        /\ particles = <<>>
        /\ feedGlows = <<>>
        /\ blockedCount = 0
        /\ passedCount = 0
        /\ speedRef = 1
        /\ width = size[1]
        /\ height = size[2]
        /\ now = 0
        /\ created = [id \in LogIds |-> 0]
        /\ armedAt = [id \in LogIds |-> <<>>]
        /\ glowsMade = [id \in LogIds |-> 0]
        /\ mousePosRef = <<0, 0>>
        /\ hoveredParticleRef = <<>>
        /\ stickyHoverInfoRef = <<>>
        /\ clickCalls = {}
        /\ Mounted
        /\ ClientIdle(DefaultConfig)
        /\ ReceiverMounted

SpawnDeltas == {1, 10}

SpawnNext ==
    \E dt \in SpawnDeltas : \E draws \in [1..2 -> StepDraws] :
        now = 0 /\ Frame(dt, draws)

SpawnSpec == SpawnInit /\ [][SpawnNext]_vars

----------------------------------------------------------------------------
(* Ingestion runs: appends to the log window interleave with frames, and   *)
(* nothing else happens.  Three distinct entries arrive at a window of     *)
(* LogWindow entries.                                                      *)

IngestLogs ==
    LogPool \cup { [id |-> "c", statusCode |-> 302, url |-> UrlHelp] }

IngestNext ==
    \/ \E log \in IngestLogs : AppendLog(log)
    \/ \E dt \in DeltaTimes : \E k \in 0..LogWindow :
           \E draws \in [1..k -> RandomDraws] : Frame(dt, draws)

IngestSpec == Init /\ [][IngestNext]_vars

\* the frame loop keeps running while the clock of the model allows
IngestFair == IngestSpec /\ WF_now(FrameRuns)

----------------------------------------------------------------------------
(* LogWebSocketClient: connect, the socket events, scheduleReconnect and   *)
(* disconnect.  Delays are milliseconds, kept as fractions [n, d].         *)

RECURSIVE Pow(_, _)
Pow(b, e) == IF e = 0 THEN 1 ELSE b * Pow(b, e - 1)

\* mutant: the delay grows linearly with the attempt
ReconnectDelay_Linear(interval, n) == [n |-> interval * n, d |-> 1]

\* reconnectInterval * Math.pow(1.5, n - 1)
ReconnectDelay(interval, n) ==
    [n |-> interval * Pow(3, n - 1), d |-> Pow(2, n - 1)]

\* mutant: one more attempt than the limit is allowed
LimitReached_OffByOne(attempts, max) == attempts > max

\* this.reconnectAttempts >= this.config.maxReconnectAttempts
LimitReached(attempts, max) == attempts >= max

\* scheduleReconnect()
scheduleReconnect ==
    IF LimitReached(reconnectAttempts, config.maxReconnectAttempts)
    THEN UNCHANGED <<reconnectAttempts, reconnectTimer, timers, timerSeq, delays,
                     sinceOpen>>
    ELSE \E delay \in { ReconnectDelay(config.reconnectInterval, reconnectAttempts + 1) } :
           /\ reconnectAttempts' = reconnectAttempts + 1
           /\ timerSeq' = timerSeq + 1
           /\ reconnectTimer' = timerSeq + 1
           /\ timers' = timers \cup { [id |-> timerSeq + 1, delay |-> delay] }
           /\ delays' = Append(delays, delay)
           /\ sinceOpen' = sinceOpen + 1

\* the body of connect(): nothing while a connection is being made, else a
\* new socket takes the place of the one referred to; a socket replaced
\* while open is not closed and keeps its handlers
connect ==
    IF isConnecting \/ ws = "CONNECTING"
    THEN UNCHANGED <<ws, isConnecting, orphans, replaced>>
    ELSE /\ isConnecting' = TRUE
         /\ ws' = "CONNECTING"
         /\ orphans' = IF ws = "OPEN" THEN orphans + 1 ELSE orphans
         /\ replaced' = IF ws = "OPEN" THEN replaced + 1 ELSE replaced

\* the application calls connect(): useLogReceiver when it sets the client
\* up, and the reconnect function it returns at any later time
Connect ==
    /\ ws = "OPEN" => orphans < MaxOrphans
    /\ connect
    /\ UNCHANGED <<config, reconnectAttempts, reconnectTimer, timers, timerSeq,
                   delays, sinceOpen>>
    /\ UNCHANGED <<canvasVars, receiverVars>>

\* the reconnect timeout t expires: this.connect()
TimerFires(t) ==
    /\ t \in timers
    /\ timers' = timers \ {t}
    /\ connect
    /\ UNCHANGED <<config, reconnectAttempts, reconnectTimer, timerSeq, delays,
                   sinceOpen>>
    /\ UNCHANGED <<canvasVars, receiverVars>>

\* ws.onopen
OnOpen ==
    /\ ws = "CONNECTING"
    /\ ws' = "OPEN"
    /\ isConnecting' = FALSE
    /\ reconnectAttempts' = 0
    /\ delays' = <<>>
    /\ sinceOpen' = 0
    /\ UNCHANGED <<config, reconnectTimer, timers, timerSeq, orphans, replaced>>
    /\ UNCHANGED <<canvasVars, receiverVars>>

\* ws.onclose of the socket the client refers to: the connection could not
\* be made, or the open connection was closed
OnClose ==
    /\ ws \in {"CONNECTING", "OPEN"}
    /\ timerSeq < MaxTimers
    /\ ws' = "CLOSED"
    /\ isConnecting' = FALSE
    /\ scheduleReconnect
    /\ UNCHANGED <<config, orphans, replaced>>
    /\ UNCHANGED <<canvasVars, receiverVars>>

\* ws.onclose of a socket the client no longer refers to: one closed by
\* disconnect(), or one replaced while open and closed by the server
OrphanClose ==
    /\ orphans > 0
    /\ timerSeq < MaxTimers
    /\ orphans' = orphans - 1
    /\ \E r \in (IF replaced > 0 THEN {replaced - 1} ELSE {})
                 \cup (IF orphans > replaced THEN {replaced} ELSE {}) :
           replaced' = r
    /\ isConnecting' = FALSE
    /\ scheduleReconnect
    /\ UNCHANGED <<config, ws>>
    /\ UNCHANGED <<canvasVars, receiverVars>>

\* the body of disconnect()
disconnect ==
    /\ timers' = { t \in timers : t.id # reconnectTimer }
    /\ reconnectTimer' = 0
    /\ orphans' = IF ws \in {"CONNECTING", "OPEN"} THEN orphans + 1 ELSE orphans
    /\ ws' = "null"
    /\ reconnectAttempts' = 0
    /\ isConnecting' = FALSE
    /\ delays' = <<>>
    /\ UNCHANGED <<config, timerSeq, replaced, sinceOpen>>

\* the application calls disconnect()
Disconnect ==
    /\ orphans < MaxOrphans
    /\ disconnect
    /\ UNCHANGED <<canvasVars, receiverVars>>

\* reconnectInterval and maxReconnectAttempts of the runs
ClientConfigs ==
    { [reconnectInterval |-> i, maxReconnectAttempts |-> m] :
          i \in {DefaultReconnectInterval, 1000}, m \in {2, 3} }

ClientInit ==
    \E c \in ClientConfigs :
        /\ logs = <<>>
        /\ processedLogIds = {}
        /\ particles = <<>>
        /\ feedGlows = <<>>
        /\ blockedCount = 0
        /\ passedCount = 0
        /\ speedRef = 1
        /\ width = 800
        /\ height = 400
        /\ now = 0
        /\ created = [id \in LogIds |-> 0]
        /\ armedAt = [id \in LogIds |-> <<>>]
        /\ glowsMade = [id \in LogIds |-> 0]
        /\ mousePosRef = <<0, 0>>
        /\ hoveredParticleRef = <<>>
        /\ stickyHoverInfoRef = <<>>
        /\ clickCalls = {}
        /\ Mounted
        /\ ClientIdle(c)
        /\ ReceiverMounted

ClientNext ==
    \/ Connect
    \/ \E t \in timers : TimerFires(t)
    \/ OnOpen
    \/ OnClose
    \/ OrphanClose
    \/ Disconnect

ClientSpec == ClientInit /\ [][ClientNext]_vars

----------------------------------------------------------------------------
(* useLogReceiver and AzionLogClient.  The client variables describe the   *)
(* LogWebSocketClient that wsClientRef refers to, or referred to last.     *)

\* the configuration useLogReceiver hands to its LogWebSocketClient
HookConfig == [reconnectInterval |-> 3000, maxReconnectAttempts |-> 10]

\* the client after new LogWebSocketClient(HookConfig) and connect()
ClientConnecting ==
    /\ config = HookConfig
    /\ ws = "CONNECTING"
    /\ isConnecting = TRUE
    /\ reconnectAttempts = 0
    /\ reconnectTimer = 0
    /\ timers = {}
    /\ timerSeq = 0
    /\ orphans = 0
    /\ replaced = 0
    /\ delays = <<>>
    /\ sinceOpen = 0

\* the effect replaces the client by a new one and calls its connect()
NewClientConnecting ==
    /\ config' = HookConfig
    /\ ws' = "CONNECTING"
    /\ isConnecting' = TRUE
    /\ reconnectAttempts' = 0
    /\ reconnectTimer' = 0
    /\ timers' = {}
    /\ timerSeq' = 0
    /\ orphans' = 0
    /\ replaced' = 0
    /\ delays' = <<>>
    /\ sinceOpen' = 0

\* the props of useLogReceiver
Flags == [useAzionEndpoint : BOOLEAN, enableWebSocket : BOOLEAN]

\* n calls of onNewLog with the log id, made for the source src
Calls(src, id, n) == [i \in 1..n |-> [source |-> src, id |-> id]]

\* a dependency of the effect changes and the component renders with the
\* props f: React runs the cleanup function of the previous effect, then the
\* effect
Rerender(f) ==
    /\ SourceFor(f) = "azion" => azionClients < MaxClients
    /\ flags' = f
    /\ effectSource' = SourceFor(f)
    /\ listeners' = Subscribe(Unsubscribe(listeners, effectSource), SourceFor(f))
    /\ azionClients' = IF SourceFor(f) = "azion" THEN azionClients + 1
                       ELSE azionClients
    /\ IF SourceFor(f) = "websocket" THEN NewClientConnecting
       ELSE IF effectSource = "websocket" THEN disconnect
       ELSE UNCHANGED clientVars
    /\ UNCHANGED <<posts, onNewLogCalls>>
    /\ UNCHANGED canvasVars

\* ws.onmessage of the socket the client refers to: handleMessage and
\* notifyListeners
OnMessage(log) ==
    /\ ws = "OPEN"
    /\ Len(onNewLogCalls) < MaxCalls
    /\ onNewLogCalls' = onNewLogCalls \o Calls("websocket", log.id, listeners["websocket"])
    /\ UNCHANGED <<flags, effectSource, listeners, azionClients, posts>>
    /\ UNCHANGED <<canvasVars, clientVars>>

\* a 'newLogReceived' event on window: handleLogSubmission, when registered
MockEvent(log) ==
    /\ Len(onNewLogCalls) < MaxCalls
    /\ onNewLogCalls' = onNewLogCalls \o Calls("mock", log.id, listeners["mock"])
    /\ UNCHANGED <<flags, effectSource, listeners, azionClients, posts>>
    /\ UNCHANGED <<canvasVars, clientVars>>

\* The requests that reach the server for one POST made through k nested
\* wrappers of window.fetch.  The innermost wrapper reads the body of the
\* response; response.json() of every wrapper around it then rejects, and
\* its catch block sends the request again through the wrapper it wraps.
RealPosts(k) == Pow(2, k - 1)

\* The calls a log listener of the newest of k AzionLogClients gets for a
\* log of the response: one for every 'azion_logs_received' event, which
\* the innermost wrapper dispatches for every request, and one for the
\* direct processReceivedLogs of the client whose wrapper read the body.
\* The 'storage' event of localStorage.setItem is not fired in the tab
\* that made the change.
AzionDeliveries(k) ==
    RealPosts(k) + (IF k = 1 THEN RealPosts(k) ELSE 0)

\* the page makes a POST to /logs that the Edge Function answers with
\* status 'success' and the one log
PostLogs(log) ==
    /\ azionClients >= 1
    /\ posts < MaxPosts
    /\ Len(onNewLogCalls) < MaxCalls
    /\ posts' = posts + 1
    /\ onNewLogCalls' = onNewLogCalls \o
           Calls("azion", log.id, listeners["azion"] * AzionDeliveries(azionClients))
    /\ UNCHANGED <<flags, effectSource, listeners, azionClients>>
    /\ UNCHANGED <<canvasVars, clientVars>>

ReceiverInit ==
    \E f \in Flags :
        /\ logs = <<>>
        /\ processedLogIds = {}
        /\ particles = <<>>
        /\ feedGlows = <<>>
        /\ blockedCount = 0
        /\ passedCount = 0
        /\ speedRef = 1
        /\ width = 800
        /\ height = 400
        /\ now = 0
        /\ created = [id \in LogIds |-> 0]
        /\ armedAt = [id \in LogIds |-> <<>>]
        /\ glowsMade = [id \in LogIds |-> 0]
        /\ mousePosRef = <<0, 0>>
        /\ hoveredParticleRef = <<>>
        /\ stickyHoverInfoRef = <<>>
        /\ clickCalls = {}
        /\ Mounted
        /\ IF SourceFor(f) = "websocket" THEN ClientConnecting
           ELSE ClientIdle(HookConfig)
        /\ ReceiverAfterMount(f)

ReceiverNext ==
    \/ \E f \in Flags : Rerender(f)
    \/ \E log \in LogPool : PostLogs(log)
    \/ \E log \in LogPool : MockEvent(log)
    \/ \E log \in LogPool : OnMessage(log)
    \/ OnOpen

ReceiverSpec == ReceiverInit /\ [][ReceiverNext]_vars

----------------------------------------------------------------------------
(* Properties *)

RECURSIVE SumOver(_, _)
SumOver(f, S) ==
    IF S = {} THEN 0
    ELSE LET x == CHOOSE x \in S : TRUE IN f[x] + SumOver(f, S \ {x})

TotalCreated == SumOver(created, LogIds)

TotalGlowsMade == SumOver(glowsMade, LogIds)

\* the shortest frame deltaTime and the longest step deltaTime of the model
MinDelta == CHOOSE d \in DeltaTimes : \A e \in DeltaTimes : d <= e
MaxStepDelta == CHOOSE d \in StepDeltas : \A e \in StepDeltas : d >= e

\* the x advance of one step, from the clock difference of the step
Advance(p) == p.speed * speedRef * (now' - now) * PxPerTick

\* C1: for every interleaving of log-array updates with frames, at most one
\* particle is ever created for any log id
C1_AtMostOneParticlePerLogId ==
    \A id \in LogIds : created[id] <= 1

\* C2: under any sequence of updateParticle steps the phase of a particle
\* changes only from moving, to blocked or exploding: an exploding particle
\* stays exploding (also once it is not alive) and no particle returns to
\* moving
C2_PhaseChangesOnce ==
    [][\A i \in DOMAIN particles :
          particles'[i].phase # particles[i].phase =>
              /\ particles[i].phase = "moving"
              /\ particles'[i].phase \in {"blocked", "exploding"}]_vars

\* an exploding particle stepped on after its death (its glow is gone before
\* its size can pass the cap)
C2_Witness ==
    \E i \in DOMAIN particles :
        /\ particles[i].phase = "exploding"
        /\ ~particles[i].isAlive
        /\ particles[i].glowIntensity <= 0
        /\ particles[i].size > ExplodeSizeCap

\* C3: a particle with statusCode >= 400 that reaches the barrier becomes
\* exploding, is snapped to the barrier and pushes exactly one FeedGlow; from
\* then on its x and y do not change, no FeedGlow is pushed and its callout
\* is not armed again
C3_RejectedAtBarrier ==
    [][\A i \in DOMAIN particles :
          LET p == particles[i]
              q == particles'[i]
          IN  /\ ( /\ p.phase = "moving"
                   /\ p.log.statusCode >= ErrorFloor
                   /\ p.x + Advance(p) >= BarrierX(width) )
                 => /\ q.phase = "exploding"
                    /\ q.x = BarrierX(width)
                    /\ Len(feedGlows') = Len(feedGlows) + 1
                    /\ glowsMade'[p.id] = glowsMade[p.id] + 1
              /\ p.phase = "exploding"
                 => /\ q.x = p.x
                    /\ q.y = p.y
                    /\ Len(feedGlows') = Len(feedGlows)
                    /\ glowsMade' = glowsMade
                    /\ armedAt' = armedAt]_vars

\* a rejected particle at the barrier, stepped on after its explosion began
C3_Witness ==
    \E i \in DOMAIN particles :
        /\ particles[i].log.statusCode >= ErrorFloor
        /\ particles[i].phase = "exploding"
        /\ particles[i].x = BarrierX(width)
        /\ glowsMade[particles[i].id] = 1
        /\ Len(armedAt[particles[i].id]) = 1
        /\ now > armedAt[particles[i].id][1] + MaxStepDelta

\* C4: a particle with statusCode < 400 is blocked from the step in which its
\* x reaches the barrier, never explodes, pushes no FeedGlow, and while alive
\* advances by speed * speedMultiplier * deltaTime * 100 in every step
C4_PassingParticle ==
    [][\A i \in DOMAIN particles :
          LET p == particles[i]
              q == particles'[i]
          IN  p.log.statusCode < ErrorFloor =>
                /\ q.phase # "exploding"
                /\ (q.phase = "blocked") <=> (q.x >= BarrierX(width))
                /\ glowsMade'[p.id] = 0
                /\ feedGlows' = <<>>
                /\ p.isAlive => q.x = p.x + Advance(p)]_vars

\* a passing particle that advanced again after the step in which it crossed
C4_Witness ==
    \E i \in DOMAIN particles :
        LET p == particles[i]
        IN  /\ p.log.statusCode < ErrorFloor
            /\ p.phase = "blocked"
            /\ p.isAlive
            /\ Len(p.trail) >= 2
            /\ p.trail[Len(p.trail) - 1].x >= BarrierX(width)
            /\ p.x > p.trail[Len(p.trail) - 1].x

\* C5: blockedCount grows by exactly 1 for each FeedGlow whose progress
\* reaches 1 in the step and by nothing else: not when a particle starts to
\* explode, and not when updateFeedGlow is applied again to a FeedGlow whose
\* progress already was 1
C5_BlockedCountedOncePerGlow ==
    [][blockedCount' = blockedCount +
          Cardinality({ i \in DOMAIN feedGlows' :
              /\ AtLeastOne(feedGlows'[i].progress)
              /\ i \in DOMAIN feedGlows => ~AtLeastOne(feedGlows[i].progress) })]_vars

\* the number of live particles that are not exploding
NotExploding(ps) == Cardinality({ i \in DOMAIN ps : ps[i].phase # "exploding" })

\* C6: passedCount never decreases and counts exactly the particles removed
\* without having exploded, each of them once; a frame removes such a particle
\* only beyond canvas width + 50, and a particle that dies exploding adds 0
C6_PassedCountsCulledBlocked ==
    [][ /\ passedCount' >= passedCount
        /\ passedCount' = TotalCreated' - TotalGlowsMade' - NotExploding(particles')
        /\ now' # now =>
              \A i \in DOMAIN particles' :
                  particles'[i].phase # "exploding" =>
                      particles'[i].x <= width' + CullMargin ]_vars

\* a particle has passed and another one has died exploding
C6_Witness ==
    /\ passedCount >= 1
    /\ TotalGlowsMade >= 1
    /\ particles = <<>>

\* the beam time |startY - targetY| / speed of g is at most one frame
BeamFits(g) ==
    LET d == g.startY - g.targetY
    IN  (IF d < 0 THEN -d ELSE d) <= g.speed * MinDelta

\* C7: every FeedGlow is transient: while another frame is still to come,
\* FeedGlows whose beam time fits in a frame are eventually all removed from
\* the collection, each one counted as blocked
C7_EveryGlowCompletes ==
    (/\ feedGlows # <<>>
     /\ \A i \in DOMAIN feedGlows : BeamFits(feedGlows[i])
     /\ now + MinDelta <= MaxTime)
        ~> (feedGlows = <<>> /\ blockedCount = TotalGlowsMade)

\* C7, as a deadline a finite run can miss: a frame removes every FeedGlow
\* whose age has reached its beam time, so none that old is in the collection
C7_NoGlowOutlivesItsBeam ==
    \A i \in DOMAIN feedGlows :
        LET g == feedGlows[i]
            d == g.startY - g.targetY
        IN  (now - g.startTime) * g.speed < (IF d < 0 THEN -d ELSE d)

\* C8: the progress of every FeedGlow lies in [0, 1]
C8_ProgressInUnitInterval ==
    \A i \in DOMAIN feedGlows : InUnitInterval(feedGlows[i].progress)

\* the 200 particle of the scenario of C9, on the 800x400 canvas
Scenario9(p) == p.log.statusCode = 200 /\ width = 800 /\ height = 400

\* C9, as stated: after the step in which x first becomes >= 400 the phase
\* is blocked and the callout is armed with the full duration left
C9_ArmedWithFullDuration ==
    [][\A i \in DOMAIN particles :
          LET p == particles[i]
              q == particles'[i]
          IN  (Scenario9(p) /\ p.x < 400 /\ q.x >= 400) =>
                /\ q.phase = "blocked"
                /\ q.showingStatus
                /\ q.statusDisplayTime = StatusDuration]_vars

\* C9, amended: after the step in which x first becomes >= 400 the phase is
\* blocked and the time left on the callout is the duration less the
\* deltaTime of that step; the callout is armed exactly while the deltaTimes
\* from that step on add up to less than the duration
C9_CalloutAfterCrossing ==
    \A i \in DOMAIN particles :
        LET p == particles[i]
        IN  Scenario9(p) =>
              /\ (p.x >= 400) <=> (p.phase = "blocked")
              /\ p.x >= 400 =>
                    /\ Len(armedAt[p.id]) = 1
                    /\ p.showingStatus <=> (now - armedAt[p.id][1] < StatusDuration)
                    /\ p.showingStatus =>
                          p.statusDisplayTime = StatusDuration - (now - armedAt[p.id][1])

\* the callout of the scenario, disarmed in the step that used up the duration
C9_Witness ==
    \E i \in DOMAIN particles :
        /\ Scenario9(particles[i])
        /\ particles[i].phase = "blocked"
        /\ ~particles[i].showingStatus
        /\ particles[i].statusDisplayTime = 0

\* C10: the callout of a particle is armed exactly once, in the step of its
\* transition out of moving, which is the first step that takes its x to the
\* barrier; it is not armed before that step nor again after it
C10_ArmedOnceAtTransition ==
    [][\A i \in DOMAIN particles :
          LET p == particles[i]
              q == particles'[i]
              leaves == p.phase = "moving" /\ q.phase # "moving"
          IN  /\ Len(armedAt'[p.id]) - Len(armedAt[p.id]) = (IF leaves THEN 1 ELSE 0)
              /\ leaves <=> (p.phase = "moving" /\ p.x + Advance(p) >= BarrierX(width))
              /\ p.phase = "moving" => (p.x < BarrierX(width) /\ armedAt[p.id] = <<>>)
              /\ q.phase # "moving" => Len(armedAt'[p.id]) = 1]_vars

\* a particle past its transition, stepped on after the step that armed it
C10_Witness ==
    \E i \in DOMAIN particles :
        /\ particles[i].phase # "moving"
        /\ particles[i].hasShownStatus
        /\ Len(armedAt[particles[i].id]) = 1
        /\ now > armedAt[particles[i].id][1] + MaxStepDelta

\* C11: while the callout of a live particle is armed, a step takes deltaTime
\* off its remaining time and raises it by 30 px/s, whatever the phase of the
\* particle, and leaves it armed only while time remains
C11_CalloutDecaysInEveryPhase ==
    [][\A i \in DOMAIN particles :
          LET p == particles[i]
              q == particles'[i]
          IN  (p.isAlive /\ p.showingStatus) =>
                /\ q.statusDisplayTime = p.statusDisplayTime - (now' - now)
                /\ q.statusCurrentY = p.statusCurrentY - StatusRise * (now' - now)
                /\ q.showingStatus <=> (q.statusDisplayTime > 0)]_vars

\* the positions of the points of a trail, oldest first
TrailPath(tr) == [j \in DOMAIN tr |-> <<tr[j].x, tr[j].y>>]

\* C12: the trail of a particle never holds more than 10 points; a step of a
\* particle that is not exploding appends its new position and, past the
\* cap, removes the oldest point; the opacities of the points increase
\* strictly from oldest to newest
C12_TrailCappedFifo ==
    [][\A i \in DOMAIN particles :
          LET p == particles[i]
              q == particles'[i]
              pushed == Append(TrailPath(p.trail), <<p.x + Advance(p), p.y>>)
          IN  /\ Len(q.trail) <= TrailCap
              /\ p.phase # "exploding" =>
                    TrailPath(q.trail) =
                        (IF Len(p.trail) = TrailCap THEN Tail(pushed) ELSE pushed)
              /\ \A j, k \in DOMAIN q.trail :
                    j < k => /\ q.trail[j].opacity.d > 0
                             /\ q.trail[k].opacity.d > 0
                             /\ q.trail[j].opacity.n * q.trail[k].opacity.d
                                  < q.trail[k].opacity.n * q.trail[j].opacity.d]_vars

\* a live particle with a full trail whose first pushed point has been evicted
C12_Witness ==
    \E i \in DOMAIN particles :
        LET p == particles[i]
        IN  /\ p.isAlive
            /\ Len(p.trail) = TrailCap
            /\ p.trail[1].x > StartX + p.speed * speedRef * MaxStepDelta * PxPerTick

\* the text of a URL before its first '?'
BeforeQuery(u) ==
    LET qs == { k \in DOMAIN u : u[k] = 63 }
    IN  IF qs = {} THEN u
        ELSE SubSeq(u, 1, (CHOOSE k \in qs : \A m \in qs : k <= m) - 1)

\* C13: two URLs with the same text before the first '?' get the same lane
C13_LaneIgnoresQuery ==
    \A i, j \in DOMAIN particles :
        BeforeQuery(particles[i].log.url) = BeforeQuery(particles[j].log.url)
            => particles[i].laneIndex = particles[j].laneIndex

\* "/api/users" and "/api/users?p=2" side by side, in lane 4
C13_Witness ==
    /\ Len(particles) = 2
    /\ particles[1].log.url = UrlUsers
    /\ particles[2].log.url = UrlUsers \o QueryPage
    /\ particles[1].laneIndex = 4
    /\ particles[2].laneIndex = 4

\* the wrapped hash of the path of a URL, as the unsigned pair
PathHash(u) == UrlHash([lo |-> 0, hi |-> 0], BeforeQuery(u))

\* C14: the lane of every URL is an integer in 0..7, also when the wrapped
\* hash is negative or equals -2^31
C14_LaneInRange ==
    \A i \in DOMAIN particles : particles[i].laneIndex \in 0..(LaneCount - 1)

\* a particle whose hash is -2^31 beside one whose hash is negative with a
\* remainder that is not 0
C14_Witness ==
    /\ Len(particles) = 2
    /\ PathHash(particles[1].log.url) = [lo |-> 0, hi |-> Half \div 2]
    /\ PathHash(particles[2].log.url).hi > Half \div 2
    /\ particles[2].laneIndex # 0

\* the pointer of the state, in canvas coordinates
PointerX == mousePosRef[1] - CanvasLeft
PointerY == mousePosRef[2] - CanvasTop

\* the Euclidean distance from (x, y) to p is at most p.size + 5
Near(p, x, y) ==
    (p.x - x) ^ 2 + (p.y - y) ^ 2 <= (p.size + 5) ^ 2

\* C15: a pointer move leaves no hovered particle when every live particle is
\* farther than size + 5 from the pointer, and otherwise the first particle
\* in collection order that is within size + 5
C15_HitTestFirstInRange ==
    [][(now' = now /\ clickCalls' = clickCalls) =>
          LET x == mousePosRef'[1] - CanvasLeft
              y == mousePosRef'[2] - CanvasTop
          IN  /\ (hoveredParticleRef' = <<>>)
                    <=> (\A i \in DOMAIN particles : ~Near(particles[i], x, y))
              /\ hoveredParticleRef' # <<>> =>
                    \E i \in DOMAIN particles :
                        /\ Near(particles[i], x, y)
                        /\ \A j \in 1..(i - 1) : ~Near(particles[j], x, y)
                        /\ hoveredParticleRef'[1] = Ref(particles[i])]_vars

\* two live particles within reach of the pointer, the first one hovered
C15_Witness ==
    /\ Len(particles) = 2
    /\ Near(particles[1], PointerX, PointerY)
    /\ Near(particles[2], PointerX, PointerY)
    /\ particles[1].id # particles[2].id
    /\ hoveredParticleRef = <<Ref(particles[1])>>

\* C16: onParticleClick is only ever called with the log of a particle that,
\* at the click, is in the live collection and within size + 5 of the
\* pointer
C16_ClickOnlyUnderPointer ==
    \A c \in clickCalls : c.underPointer

\* C17: the sticky hover, once set, changes only in a pointer move that
\* hovers a different particle, which replaces it by that particle with an
\* anchor computed for it at the pointer, or in a frame that finds its
\* particle gone from the live set, which clears it
C17_StickyRetained ==
    [][(stickyHoverInfoRef # <<>> /\ stickyHoverInfoRef' # stickyHoverInfoRef) =>
          \/ /\ now' = now
             /\ hoveredParticleRef' # <<>>
             /\ hoveredParticleRef'[1].id # stickyHoverInfoRef[1].particle.id
             /\ stickyHoverInfoRef' # <<>>
             /\ stickyHoverInfoRef'[1].particle = hoveredParticleRef'[1]
             /\ \E i \in DOMAIN particles, vp \in Viewports :
                    /\ Ref(particles[i]) = hoveredParticleRef'[1]
                    /\ stickyHoverInfoRef'[1].position =
                          getOptimalTooltipPosition(particles[i], mousePosRef'[1],
                                                    mousePosRef'[2], vp)
          \/ /\ now' # now
             /\ stickyHoverInfoRef' = <<>>
             /\ \A i \in DOMAIN particles' :
                    particles'[i].id # stickyHoverInfoRef[1].particle.id]_vars

\* a sticky hover kept while the pointer is over empty space, away from the
\* place where its anchor was computed
C17_Witness ==
    /\ stickyHoverInfoRef # <<>>
    /\ hoveredParticleRef = <<>>
    /\ \E i \in DOMAIN particles : particles[i].id = stickyHoverInfoRef[1].particle.id
    /\ \A vp \in Viewports, i \in DOMAIN particles :
          stickyHoverInfoRef[1].position #
              getOptimalTooltipPosition(particles[i], mousePosRef[1], mousePosRef[2], vp)

\* C18: a sticky hover that is not null refers to a particle of the live
\* collection
C18_StickyIsLive ==
    stickyHoverInfoRef # <<>> =>
        \E i \in DOMAIN particles : particles[i].id = stickyHoverInfoRef[1].particle.id

\* C19, as stated: a step advances every live particle that is not exploding
\* by particle.speed * the current multiplier * deltaTime * 100
C19_AdvanceAtNewMultiplier ==
    [][\A i \in DOMAIN particles :
          LET p == particles[i]
              q == particles'[i]
          IN  (now' # now /\ p.isAlive /\ p.phase # "exploding") =>
                q.x = p.x + Advance(p)]_vars

\* C19, amended: a step advances every live particle that is not exploding
\* by particle.speed * the current multiplier * deltaTime * 100, whatever the
\* multiplier was when the particle was created, except that a rejected
\* particle whose advance reaches the barrier is set on the barrier
C19_AdvanceOrSnap ==
    [][\A i \in DOMAIN particles :
          LET p == particles[i]
              q == particles'[i]
              reached == p.x + Advance(p) >= BarrierX(width)
          IN  (now' # now /\ p.isAlive /\ p.phase # "exploding") =>
                q.x = IF p.log.statusCode >= ErrorFloor /\ reached
                      THEN BarrierX(width)
                      ELSE p.x + Advance(p)]_vars

\* a live particle created at multiplier 1 whose last step was made at
\* multiplier 2
C19_Witness ==
    \E i \in DOMAIN particles :
        LET p == particles[i]
            n == Len(p.trail)
        IN  /\ p.isAlive
            /\ p.phase # "exploding"
            /\ p.speed \in { d.speed : d \in StepDraws }
            /\ speedRef = 2
            /\ n >= 2
            /\ \E dt \in SpeedDeltas :
                  p.trail[n].x - p.trail[n - 1].x = p.speed * 2 * dt * PxPerTick

\* C20: reset.  The log window is empty at the start of a frame only at mount
\* or when handleClear has emptied it; the frame that starts with an empty
\* window ends with both counters 0 and no particle and no FeedGlow left
C20_ResetClearsCore ==
    [][(logs = <<>> /\ now' # now) =>
          /\ blockedCount' = 0
          /\ passedCount' = 0
          /\ particles' = <<>>
          /\ feedGlows' = <<>>]_vars

\* C21: a failure raised inside a frame does not stop the loop: after every
\* frame of the mounted component the next frame is requested
C21_NextFrameAlwaysScheduled ==
    [][(now' # now /\ mounted) => pendingFrames' # {}]_vars

\* C25: once the cleanup has run no frame runs any more, and while mounted
\* the browser holds at most one requested frame
C25_TeardownStopsFrames ==
    [][/\ ~mounted => now' = now
       /\ mounted' => Cardinality(pendingFrames') <= 1]_vars

\* the component is torn down after frames have run, with particles alive
C25_Witness ==
    /\ ~mounted
    /\ now > 0
    /\ particles # <<>>
    /\ pendingFrames = {}

\* C22: createParticle fails on a canvas that has not been sized: while the
\* width or the height of the canvas is zero no particle is ever created
C22_NoParticleOnUnsizedCanvas ==
    (width = 0 \/ height = 0) =>
        /\ particles = <<>>
        /\ \A id \in LogIds : created[id] = 0

\* C28: the fields of a new particle: for every entry of the log window and
\* every outcome of the random draws, createParticle on the current canvas
\* returns the id of the log, x = -20, phase moving, alive, no trail, the
\* neutral colour, the callout fields cleared, the lane of the URL, and a
\* targetX of width + 20 below status 400 and of width / 2 from 400 on
C28_InitialFields ==
    \A i \in DOMAIN logs : \A draw \in StepDraws :
        LET log == logs[i]
            p == createParticle(log, draw, width, height, speedRef)
        IN  /\ p.id = log.id
            /\ p.log = log
            /\ p.x = -20
            /\ p.phase = "moving"
            /\ p.isAlive = TRUE
            /\ p.trail = <<>>
            /\ p.color = "#888888"
            /\ p.showingStatus = FALSE
            /\ p.hasShownStatus = FALSE
            /\ p.statusDisplayTime = 0
            /\ p.laneIndex = getUrlLane(log.url)
            /\ log.statusCode < 400 => p.targetX = width + 20
            /\ log.statusCode >= 400 => p.targetX = width \div 2

\* the first frame has created a particle aimed past the right edge and one
\* aimed at the barrier, and both are still in flight
C28_Witness ==
    /\ now > 0
    /\ \E i \in DOMAIN particles :
           /\ particles[i].log.statusCode < 400
           /\ particles[i].targetX = width + 20
           /\ particles[i].phase = "moving"
    /\ \E j \in DOMAIN particles :
           /\ particles[j].log.statusCode >= 400
           /\ particles[j].targetX = width \div 2
           /\ particles[j].phase = "moving"

\* C29: every particle lies in the band of its lane, 8 px inside its edges:
\* lane * H/8 + 8 <= y <= (lane + 1) * H/8 - 8 (y is set by createParticle
\* and never assigned again)
C29_YInsideLaneBand ==
    \A i \in DOMAIN particles :
        LET p == particles[i]
            laneHeight == height \div 8
        IN  /\ p.laneIndex * laneHeight + 8 <= p.y
            /\ p.y <= (p.laneIndex + 1) * laneHeight - 8

\* C23: no log is dropped: every entry that is in the log window while a
\* frame is still to come has a particle created for it in some later frame
C23_EveryLogSpawns ==
    \A id \in { l.id : l \in IngestLogs } :
        (/\ \E i \in DOMAIN logs : logs[i].id = id
         /\ now + MinDelta <= MaxTime)
            ~> (created[id] > 0)

\* The source names no cap for the particle or the FeedGlow collection.  The
\* cap is taken to be the length of the log window, the most that can arrive
\* between two culls.
CollectionCap == LogWindow

\* C24: the particle collection and the FeedGlow collection never hold more
\* entries than their cap
C24_CollectionsCapped ==
    /\ Len(particles) <= CollectionCap
    /\ Len(feedGlows) <= CollectionCap

\* the barrier x of the canvas on which p was created, read back from its
\* targetX
CreationBarrier(p) ==
    IF p.log.statusCode < 400 THEN (p.targetX - 20) \div 2 ELSE p.targetX

\* C26: a resize leaves the particles in flight alone: it changes no particle,
\* and a particle that has left the moving phase has reached the barrier of
\* the canvas it was created on
C26_ResizeKeepsTrajectories ==
    [][/\ (width' # width \/ height' # height) => particles' = particles
       /\ \A i \in DOMAIN particles' :
              particles'[i].phase # "moving"
                  => particles'[i].x >= CreationBarrier(particles'[i])]_vars

\* C27: whenever handleMouseMove writes the sticky info, then for every
\* viewport for which its position was chosen: if some candidate fits, the
\* sticky tooltip is shown at the first candidate that fits and its box lies
\* in the viewport with the margin; if none fits, it is shown at
\* (mouseX + 10, mouseY - 60)
C27_StickyTooltipFits ==
    [][(stickyHoverInfoRef' # stickyHoverInfoRef /\ stickyHoverInfoRef' # <<>>) =>
        \A vp \in Viewports :
            LET mouseX == mousePosRef'[1]
                mouseY == mousePosRef'[2]
                hovered == FindHovered(particles, mouseX - CanvasLeft,
                                       mouseY - CanvasTop)[1]
                position == stickyHoverInfoRef'[1].position
                shown == StickyTooltipAt(position)
                valid == SelectSeq(TooltipPositions(hovered, mouseX, vp),
                                   LAMBDA pos : FitsViewport(pos, vp))
            IN  position = getOptimalTooltipPosition(hovered, mouseX, mouseY, vp)
                    => IF valid # <<>>
                       THEN shown = valid[1] /\ FitsViewport(shown, vp)
                       ELSE shown = [x |-> mouseX + 10, y |-> mouseY - 60]]_vars

\* a close event is delivered to the client in this step
CloseEvent ==
    \/ ws \in {"CONNECTING", "OPEN"} /\ ws' = "CLOSED"
    \/ orphans' = orphans - 1

\* the step schedules one reconnect timeout whose delay is 1.5 times the
\* delay of the attempt before it, or reconnectInterval for the first
BackoffScheduled ==
    /\ reconnectAttempts' = reconnectAttempts + 1
    /\ \E t \in timers' \ timers :
         /\ timers' = timers \cup {t}
         /\ t.delay = delays'[reconnectAttempts']
         /\ IF reconnectAttempts' = 1
            THEN t.delay.n = config.reconnectInterval * t.delay.d
            ELSE LET before == delays'[reconnectAttempts' - 1]
                 IN  /\ 2 * t.delay.n * before.d = 3 * before.n * t.delay.d
                     /\ t.delay.n * before.d > before.n * t.delay.d

\* C30 as stated: every close event schedules a reconnect with exponential
\* backoff, and a successful open restarts the attempt count
C30_ReconnectAfterEveryClose ==
    [][/\ CloseEvent => BackoffScheduled
       /\ (ws = "CONNECTING" /\ ws' = "OPEN") => reconnectAttempts' = 0]_vars

\* C30, amended: a close event schedules a reconnect with exponential
\* backoff while fewer than maxReconnectAttempts consecutive attempts have
\* been made, and nothing once that many have been; a successful open
\* restarts the attempt count
C30_BackoffUntilMaxAttempts ==
    [][/\ (CloseEvent /\ reconnectAttempts < config.maxReconnectAttempts)
            => BackoffScheduled
       /\ (CloseEvent /\ reconnectAttempts >= config.maxReconnectAttempts)
            => (timers' = timers /\ reconnectAttempts' = reconnectAttempts)
       /\ (ws = "CONNECTING" /\ ws' = "OPEN") => reconnectAttempts' = 0]_vars

\* maxReconnectAttempts consecutive attempts have been made with growing
\* delays, the last one has failed as well, and nothing is scheduled
C30_Witness ==
    /\ reconnectAttempts = config.maxReconnectAttempts
    /\ Len(delays) = config.maxReconnectAttempts
    /\ timerSeq > config.maxReconnectAttempts
    /\ ws = "CLOSED"
    /\ timers = {}

----------------------------------------------------------------------------
(* Particle identity, barrier-contact state and accounting *)

\* C33: updateParticle never changes a particle's y, lane index, id or log
\* in any phase, and on an exploding particle it changes nothing but size,
\* glowIntensity and isAlive (so x and the trail stay as they were)
C33_UpdateKeepsIdentity ==
    [][\A i \in DOMAIN particles :
          LET p == particles[i]
              q == particles'[i]
          IN  /\ q.y = p.y
              /\ q.laneIndex = p.laneIndex
              /\ q.id = p.id
              /\ q.log = p.log
              /\ p.phase = "exploding" =>
                    /\ q.x = p.x
                    /\ q.trail = p.trail
                    /\ q = [p EXCEPT !.size = q.size,
                                     !.glowIntensity = q.glowIntensity,
                                     !.isAlive = q.isAlive]]_vars

\* an explosion has been stepped to its end behind a trail
C33_Witness ==
    /\ particles # <<>>
    /\ particles[1].phase = "exploding"
    /\ ~particles[1].isAlive
    /\ particles[1].trail # <<>>

\* C34: at every frame boundary a moving particle has the neutral color,
\* no armed callout and hasShownStatus false, and hasShownStatus is true
\* exactly when the phase is blocked or exploding
C34_MovingHasNoContactState ==
    \A i \in DOMAIN particles :
        LET p == particles[i]
        IN  /\ p.phase = "moving" =>
                  /\ p.color = NeutralColor
                  /\ ~p.showingStatus
                  /\ ~p.hasShownStatus
            /\ p.hasShownStatus <=> p.phase \in {"blocked", "exploding"}

\* a passing particle just after contact: blocked, its callout still shown
C34_Witness ==
    /\ particles # <<>>
    /\ particles[1].phase = "blocked"
    /\ particles[1].isAlive
    /\ particles[1].showingStatus
    /\ particles[1].hasShownStatus

\* the live particles that have not been rejected
InFlight(ps) ==
    Cardinality({ i \in DOMAIN ps : ps[i].phase \in {"moving", "blocked"} })

\* C36: at every frame boundary, for every sequence of deltaTimes and
\* resizes, the particles ever spawned are the live moving or blocked
\* ones, the passed ones, the blocked ones and the live FeedGlows
C36_Accounting ==
    TotalCreated = InFlight(particles) + passedCount + blockedCount + Len(feedGlows)

\* a passing particle has touched the barrier and left the canvas in one
\* frame of 1 s, and a rejected one has been counted as blocked
C36_Witness ==
    /\ passedCount >= 1
    /\ blockedCount >= 1
    /\ armedAt["a"] = <<now - 10>>
    /\ \A i \in DOMAIN particles : particles[i].id # "a"

\* C35: the reference label drawn in lane i names a path of lane i: a
\* particle whose path is the label of lane i travels in lane i
C35_LabelsAgreeWithLanes ==
    \A k \in DOMAIN particles : \A i \in 0..(LaneCount - 1) :
        BaseUrl(particles[k].log.url) = LaneLabel(i) => particles[k].laneIndex = i

\* the x a particle that is not exploding would have at the end of the run
FinalX(p) == p.x + p.speed * speedRef * PxPerTick * (MaxStepTime - now)

\* C32: while frames keep coming (deltaTime > 0, speed multiplier > 0) every
\* particle is eventually removed: a rejected one that the remaining frames
\* carry to the barrier starts to explode, an exploding one whose glow the
\* remaining frames use up dies, and a passing one that the remaining
\* frames carry beyond canvas width + 50 dies
C32_EveryParticleRemoved ==
    /\ (/\ particles[1].phase = "moving"
        /\ particles[1].log.statusCode >= ErrorFloor
        /\ FinalX(particles[1]) >= BarrierX(width))
            ~> (particles[1].phase = "exploding")
    /\ (/\ particles[1].phase = "exploding"
        /\ particles[1].isAlive
        /\ particles[1].glowIntensity <= ExplodeFade * (MaxStepTime - now))
            ~> ~particles[1].isAlive
    /\ (/\ particles[1].log.statusCode < ErrorFloor
        /\ particles[1].isAlive
        /\ FinalX(particles[1]) > width + CullMargin)
            ~> ~particles[1].isAlive

\* a passing particle has been carried beyond the cull line and marked dead
C32_Witness ==
    /\ particles[1].log.statusCode < ErrorFloor
    /\ particles[1].x > width + CullMargin
    /\ ~particles[1].isAlive
    /\ speedRef > 0

----------------------------------------------------------------------------
(* Reconnect limit, disconnect and socket count of LogWebSocketClient *)

\* C37 as stated: reconnectAttempts lies in 0..maxReconnectAttempts, at most
\* maxReconnectAttempts reconnects are scheduled between two successful
\* opens, and once the limit is reached no reconnect is scheduled
C37_AtMostMaxBetweenOpens ==
    [][/\ reconnectAttempts' \in 0..config.maxReconnectAttempts
       /\ sinceOpen' <= config.maxReconnectAttempts
       /\ reconnectAttempts >= config.maxReconnectAttempts
              => timers' \subseteq timers]_vars

\* C37, amended: reconnectAttempts lies in 0..maxReconnectAttempts, at most
\* maxReconnectAttempts reconnects are scheduled between two resets of the
\* count (a successful open or a disconnect()), and once the limit is
\* reached no reconnect is scheduled until such a reset
C37_AtMostMaxBetweenResets ==
    [][/\ reconnectAttempts' \in 0..config.maxReconnectAttempts
       /\ Len(delays') <= config.maxReconnectAttempts
       /\ reconnectAttempts >= config.maxReconnectAttempts
              => timers' \subseteq timers]_vars

\* the limit is reached again after a disconnect() had reset the count, and
\* the close event that followed has scheduled nothing
C37_Witness ==
    /\ reconnectAttempts = config.maxReconnectAttempts
    /\ sinceOpen > config.maxReconnectAttempts
    /\ ws = "CLOSED"
    /\ timers = {}

\* C38: after disconnect() (ws is null until connect() is called again) no
\* reconnect timer is scheduled, and a socket is opened only by a call of
\* connect(), which leaves the timers alone
C38_QuietAfterDisconnect ==
    [][ws = "null" =>
          /\ timers' \subseteq timers
          /\ ws' # "null" => timers' = timers]_vars

\* the sockets of the client that are connecting or open
LiveSockets == (IF ws \in {"CONNECTING", "OPEN"} THEN 1 ELSE 0) + replaced

\* C39: at most one WebSocket of the client is connecting or open
C39_AtMostOneLiveSocket == LiveSockets <= 1

----------------------------------------------------------------------------
(* Ingestion sources *)

\* the source the priorities give for the props f
PrioritySource(f) ==
    CASE f.useAzionEndpoint -> "azion"
      [] ~f.useAzionEndpoint /\ f.enableWebSocket -> "websocket"
      [] ~f.useAzionEndpoint /\ ~f.enableWebSocket -> "mock"

\* C31: onNewLog is subscribed to exactly one source, the one the
\* priorities give for the current props (Azion, else WebSocket, else the
\* mock listener), and every log that is delivered comes from that source:
\* after a change of the props the previous source delivers nothing
C31_OneSourceByPriority ==
    [][/\ \A src \in Sources :
            listeners'[src] = IF src = PrioritySource(flags') THEN 1 ELSE 0
       /\ \A i \in (Len(onNewLogCalls) + 1)..Len(onNewLogCalls') :
            onNewLogCalls'[i].source = PrioritySource(flags)]_vars

\* logs have been delivered by the Azion client and, after a change of the
\* props, by the WebSocket client
C31_Witness ==
    \E i, j \in DOMAIN onNewLogCalls :
        /\ i < j
        /\ onNewLogCalls[i].source = "azion"
        /\ onNewLogCalls[j].source = "websocket"
        /\ flags = [useAzionEndpoint |-> FALSE, enableWebSocket |-> TRUE]

\* C40: a successful POST to /logs delivers the log of its response to
\* each registered log listener of the client exactly once
C40_PostDeliversOnce ==
    [][posts' = posts + 1 =>
          Len(onNewLogCalls') = Len(onNewLogCalls) + listeners["azion"]]_vars
====
